---- MODULE Spec2Model ----
(***************************************************************************)
(* The two Pluribus CLI adapters pn_trunk and pn_vlag.  Each run of        *)
(* main() validates the caller's arguments (AnsibleModule), assembles the  *)
(* command string, tokenises it with shlex.split, starts /usr/bin/cli as a *)
(* subprocess, waits for it and hands a report to exit_json.               *)
(*                                                                         *)
(* A Python str is a sequence of chunks: a chunk is either one of the      *)
(* single characters SP, CR, LF or a run of text holding none of them (nor *)
(* a quote or backslash).  Concatenation of strs is \o on the sequences.   *)
(* A Python value is a tagged record: None, a str, a bool or an int.       *)
(***************************************************************************)
EXTENDS Integers, Sequences, FiniteSets, TLC

\* How many arguments of one request may differ from the base request.
MaxSet == 2

SP == " "
LF == "\n"
CR == "\r"

None == [t |-> "none"]
Str(s) == [t |-> "str", v |-> s]
Word(w) == [t |-> "str", v |-> <<w>>]
PyBool(b) == [t |-> "bool", v |-> b]
PyInt(n) == [t |-> "int", v |-> n]

\* Python truthiness, `if x:`
Truthy(x) ==
    CASE x.t = "none" -> FALSE
      [] x.t = "str" -> x.v /= <<>>
      [] x.t = "bool" -> x.v
      [] x.t = "int" -> x.v /= 0

\* `x is True`, `x is False`
IsTrue(x) == x.t = "bool" /\ x.v
IsFalse(x) == x.t = "bool" /\ ~x.v

(***************************************************************************)
(* argument_spec and required_if of the two modules                        *)
(***************************************************************************)
Arg(type, required, choices, default) ==
    [type |-> type, required |-> required, choices |-> choices, default |-> default]

TrunkArgumentSpec ==
    [pn_cliusername |-> Arg("str", TRUE, {}, None),
     pn_clipassword |-> Arg("str", TRUE, {}, None),
     pn_cliswitch |-> Arg("str", FALSE, {}, None),
     pn_command |-> Arg("str", TRUE, {"trunk-create", "trunk-delete", "trunk-modify"}, None),
     pn_name |-> Arg("str", TRUE, {}, None),
     pn_ports |-> Arg("str", FALSE, {}, None),
     pn_speed |-> Arg("str", FALSE, {"disable", "10m", "100m", "1g", "2.5g", "10g", "40g"}, None),
     pn_egress_rate_limit |-> Arg("str", FALSE, {}, None),
     pn_jumbo |-> Arg("bool", FALSE, {}, None),
     pn_lacp_mode |-> Arg("str", FALSE, {"off", "passive", "active"}, None),
     pn_lacp_priority |-> Arg("int", FALSE, {}, None),
     pn_lacp_timeout |-> Arg("str", FALSE, {}, None),
     pn_lacp_fallback |-> Arg("str", FALSE, {"bundle", "individual"}, None),
     pn_lacp_fallback_timeout |-> Arg("str", FALSE, {}, None),
     pn_edge_switch |-> Arg("bool", FALSE, {}, None),
     pn_pause |-> Arg("bool", FALSE, {}, None),
     pn_description |-> Arg("str", FALSE, {}, None),
     pn_loopback |-> Arg("bool", FALSE, {}, None),
     pn_mirror_receive |-> Arg("bool", FALSE, {}, None),
     pn_unknown_ucast_level |-> Arg("str", FALSE, {}, None),
     pn_unknown_mcast_level |-> Arg("str", FALSE, {}, None),
     pn_broadcast_level |-> Arg("str", FALSE, {}, None),
     pn_port_macaddr |-> Arg("str", FALSE, {}, None),
     pn_loopvlans |-> Arg("str", FALSE, {}, None),
     pn_routing |-> Arg("bool", FALSE, {}, None),
     pn_host |-> Arg("bool", FALSE, {}, None),
     pn_quiet |-> Arg("bool", FALSE, {}, PyBool(TRUE))]

\* pn_trunk's required_if with pn_ports forgotten for trunk-create
TrunkRequiredIfNoPorts ==
    {[key |-> "pn_command", is |-> "trunk-create", requirements |-> {"pn_name"}],
     [key |-> "pn_command", is |-> "trunk-delete", requirements |-> {"pn_name"}],
     [key |-> "pn_command", is |-> "trunk-modify", requirements |-> {"pn_name"}]}

TrunkRequiredIf ==
    {[key |-> "pn_command", is |-> "trunk-create", requirements |-> {"pn_name", "pn_ports"}],
     [key |-> "pn_command", is |-> "trunk-delete", requirements |-> {"pn_name"}],
     [key |-> "pn_command", is |-> "trunk-modify", requirements |-> {"pn_name"}]}

VlagArgumentSpec ==
    [pn_cliusername |-> Arg("str", TRUE, {}, None),
     pn_clipassword |-> Arg("str", TRUE, {}, None),
     pn_cliswitch |-> Arg("str", FALSE, {}, None),
     pn_command |-> Arg("str", TRUE, {"vlag-create", "vlag-delete", "vlag-modify"}, None),
     pn_name |-> Arg("str", TRUE, {}, None),
     pn_port |-> Arg("str", FALSE, {}, None),
     pn_peer_port |-> Arg("str", FALSE, {}, None),
     pn_mode |-> Arg("str", FALSE, {"active-standby", "active-active"}, None),
     pn_peer_switch |-> Arg("str", FALSE, {}, None),
     pn_failover_action |-> Arg("str", FALSE, {"move", "ignore"}, None),
     pn_lacp_mode |-> Arg("str", FALSE, {"off", "passive", "active"}, None),
     pn_lacp_timeout |-> Arg("str", FALSE, {"slow", "fast"}, None),
     pn_lacp_fallback |-> Arg("str", FALSE, {"individual", "bundled"}, None),
     pn_lacp_fallback_timeout |-> Arg("str", FALSE, {}, None),
     pn_quiet |-> Arg("bool", FALSE, {}, PyBool(TRUE))]

VlagRequiredIf ==
    {[key |-> "pn_command", is |-> "vlag-create",
      requirements |-> {"pn_name", "pn_port", "pn_peer_port"}],
     [key |-> "pn_command", is |-> "vlag-delete", requirements |-> {"pn_name"}],
     [key |-> "pn_command", is |-> "vlag-modify", requirements |-> {"pn_name"}]}

ArgumentSpec(fam) == IF fam = "trunk" THEN TrunkArgumentSpec ELSE VlagArgumentSpec
RequiredIf(fam) == IF fam = "trunk" THEN TrunkRequiredIf ELSE VlagRequiredIf

(***************************************************************************)
(* AnsibleModule(argument_spec, required_if): what the declarations ask of *)
(* the supplied arguments, and the params the module body then reads.      *)
(***************************************************************************)
MissingRequired(spec, args) ==
    {k \in DOMAIN spec : spec[k].required /\ args[k].t = "none"}

BadChoice(spec, args) ==
    {k \in DOMAIN spec :
        /\ spec[k].choices /= {}
        /\ args[k].t = "str"
        /\ args[k].v \notin {<<c>> : c \in spec[k].choices}}

MissingRequiredIf(rules, args) ==
    UNION {{k \in r.requirements : args[k].t = "none"} :
              r \in {q \in rules : args[q.key] = Word(q.is)}}

ArgumentsOk(fam, args) ==
    /\ MissingRequired(ArgumentSpec(fam), args) = {}
    /\ BadChoice(ArgumentSpec(fam), args) = {}
    /\ MissingRequiredIf(RequiredIf(fam), args) = {}

SetDefaults(spec, args) ==
    [k \in DOMAIN spec |-> IF args[k].t = "none" THEN spec[k].default ELSE args[k]]

(***************************************************************************)
(* Building the CLI command string                                         *)
(***************************************************************************)
\* StrClause with the space between label and value forgotten
StrClauseNoSpace(label, x) == IF Truthy(x) THEN <<SP, label>> \o x.v ELSE <<>>

\* StrClause testing `x is not None` in place of `if x:`
StrClauseNotNone(label, x) == IF x.t /= "none" THEN <<SP, label, SP>> \o x.v ELSE <<>>

\* `if x: cli += ' label ' + x`
StrClause(label, x) == IF Truthy(x) THEN <<SP, label, SP>> \o x.v ELSE <<>>

\* BoolClause as a plain flag: False renders nothing
BoolClauseFlag(yes, no, x) == IF Truthy(x) THEN <<SP, yes, SP>> ELSE <<>>

\* `if x is True: cli += ' yes '` followed by `if x is False: cli += ' no '`
BoolClause(yes, no, x) ==
    (IF IsTrue(x) THEN <<SP, yes, SP>> ELSE <<>>)
        \o (IF IsFalse(x) THEN <<SP, no, SP>> ELSE <<>>)

TrunkSwitchClause(cliswitch) ==
    IF Truthy(cliswitch)
    THEN IF cliswitch = Word("local")
         THEN <<SP, "switch-local", SP>>
         ELSE <<SP, "switch", SP>> \o cliswitch.v
    ELSE <<>>

\* pn_trunk, from cli = '/usr/bin/cli' to the lacp_mode clause
TrunkCliHead(p) ==
    <<"/usr/bin/cli">>
        \o (IF IsTrue(p.pn_quiet) THEN <<SP, "--quiet", SP>> ELSE <<>>)
        \o (<<SP, "--user", SP>> \o p.pn_cliusername.v \o <<":">>
                \o p.pn_clipassword.v \o <<SP>>)
        \o TrunkSwitchClause(p.pn_cliswitch)
        \o (<<SP>> \o p.pn_command.v \o <<SP, "name", SP>> \o p.pn_name.v \o <<SP>>)
        \o StrClause("ports", p.pn_ports)
        \o StrClause("speed", p.pn_speed)
        \o StrClause("egress-rate-limit", p.pn_egress_rate_limit)
        \o BoolClause("jumbo", "no-jumbo", p.pn_jumbo)
        \o StrClause("lacp-mode", p.pn_lacp_mode)

\* `if lacp_priority: cli += ' lacp-priority ' + lacp_priority` adds an int
\* to a str: Python raises TypeError whenever the branch is taken.
TrunkRaises(p) == Truthy(p.pn_lacp_priority)

\* pn_trunk, from the lacp_timeout clause to the host clause
TrunkCliTail(p) ==
    StrClause("lacp-timeout", p.pn_lacp_timeout)
        \o StrClause("lacp-fallback", p.pn_lacp_fallback)
        \o StrClause("lacp-fallback-timeout", p.pn_lacp_fallback_timeout)
        \o BoolClause("edge-switch", "no-edge-switch", p.pn_edge_switch)
        \o BoolClause("pause", "no-pause", p.pn_pause)
        \o StrClause("description", p.pn_description)
        \o BoolClause("loopback", "no-loopback", p.pn_loopback)
        \o BoolClause("mirror-receive-only", "no-mirror-receive-only", p.pn_mirror_receive)
        \o StrClause("unknown-ucast-level", p.pn_unknown_ucast_level)
        \o StrClause("unknown-mcast-level", p.pn_unknown_mcast_level)
        \o StrClause("broadcast-level", p.pn_broadcast_level)
        \o StrClause("port-mac-address", p.pn_port_macaddr)
        \o StrClause("loopvlans", p.pn_loopvlans)
        \o BoolClause("routing", "no-routing", p.pn_routing)
        \o BoolClause("host-enable", "host-disable", p.pn_host)

VlagSwitchClause(cliswitch) ==
    IF Truthy(cliswitch) THEN <<SP, "switch", SP>> \o cliswitch.v ELSE <<>>

\* PeerSwitchClause with a separating space
PeerSwitchClauseSpaced(x) == IF Truthy(x) THEN <<SP, "peer-switch", SP>> \o x.v ELSE <<>>

\* `if peer_switch: cli += ' peer-switch' + peer_switch`
PeerSwitchClause(x) == IF Truthy(x) THEN <<SP, "peer-switch">> \o x.v ELSE <<>>

\* `if failover_action: cli += ' failover-' + failover_action + '-L2 '`
FailoverClause(x) ==
    IF Truthy(x) THEN <<SP, "failover-">> \o x.v \o <<"-L2", SP>> ELSE <<>>

VlagCli(p) ==
    (IF IsTrue(p.pn_quiet)
     THEN <<"/usr/bin/cli", SP, "--quiet", SP, "--user", SP>> \o p.pn_cliusername.v
              \o <<":">> \o p.pn_clipassword.v \o <<SP>>
     ELSE <<"/usr/bin/cli", SP, "--user", SP>> \o p.pn_cliusername.v
              \o <<":">> \o p.pn_clipassword.v \o <<SP>>)
        \o VlagSwitchClause(p.pn_cliswitch)
        \o (<<SP>> \o p.pn_command.v \o <<SP, "name", SP>> \o p.pn_name.v)
        \o StrClause("port", p.pn_port)
        \o StrClause("peer-port", p.pn_peer_port)
        \o StrClause("mode", p.pn_mode)
        \o PeerSwitchClause(p.pn_peer_switch)
        \o FailoverClause(p.pn_failover_action)
        \o StrClause("lacp-mode", p.pn_lacp_mode)
        \o StrClause("lacp-timeout", p.pn_lacp_timeout)
        \o StrClause("lacp-fallback", p.pn_lacp_fallback)
        \o StrClause("lacp-fallback-timeout", p.pn_lacp_fallback_timeout)

\* shlex.split on a str without quotes or escapes: the maximal runs of
\* non-whitespace characters, in order.
RECURSIVE Split(_, _, _)
Split(s, cur, toks) ==
    IF s = <<>>
    THEN IF cur = "" THEN toks ELSE Append(toks, cur)
    ELSE IF Head(s) \in {SP, CR, LF}
         THEN Split(Tail(s), "", IF cur = "" THEN toks ELSE Append(toks, cur))
         ELSE Split(Tail(s), cur \o Head(s), toks)

ShlexSplit(s) == Split(s, "", <<>>)

(***************************************************************************)
(* Response in JSON format                                                 *)
(***************************************************************************)
\* s.rstrip("\r\n"): drops every trailing CR and LF
RECURSIVE Rstrip(_)
Rstrip(s) ==
    IF s /= <<>> /\ s[Len(s)] \in {CR, LF} THEN Rstrip(SubSeq(s, 1, Len(s) - 1)) ELSE s

\* TrunkReport deciding on the trimmed stderr text
TrunkReportTrimFirst(command, o, e) ==
    IF Rstrip(e) /= <<>>
    THEN [command |-> command, stderr |-> Rstrip(e), changed |-> FALSE]
    ELSE [command |-> command, stdout |-> Rstrip(o), changed |-> TRUE]

TrunkReport(command, o, e) ==
    IF e /= <<>>
    THEN [command |-> command, stderr |-> Rstrip(e), changed |-> FALSE]
    ELSE [command |-> command, stdout |-> Rstrip(o), changed |-> TRUE]

\* VlagReport with rc=0 in both branches
VlagReportRcZero(command, o, e) ==
    IF e /= <<>>
    THEN [command |-> command, stderr |-> Rstrip(e), rc |-> 0, changed |-> FALSE]
    ELSE [command |-> command, stdout |-> Rstrip(o), rc |-> 0, changed |-> TRUE]

VlagReport(command, o, e) ==
    IF e /= <<>>
    THEN [command |-> command, stderr |-> Rstrip(e), rc |-> 1, changed |-> FALSE]
    ELSE [command |-> command, stdout |-> Rstrip(o), rc |-> 0, changed |-> TRUE]

(***************************************************************************)
(* The requests the caller may send, and what the external tool may answer *)
(***************************************************************************)
Families == {"trunk", "vlag"}

Commands(fam) == ArgumentSpec(fam).pn_command.choices

\* One sample text for each str argument.
SampleText ==
    [pn_cliusername |-> "admin", pn_clipassword |-> "admin", pn_cliswitch |-> "leaf01",
     pn_name |-> "spine-to-leaf", pn_ports |-> "11,12,13,14", pn_speed |-> "10g",
     pn_egress_rate_limit |-> "unlimited", pn_lacp_mode |-> "active",
     pn_lacp_timeout |-> "slow", pn_lacp_fallback |-> "individual",
     pn_lacp_fallback_timeout |-> "50", pn_description |-> "uplink",
     pn_unknown_ucast_level |-> "30", pn_unknown_mcast_level |-> "40",
     pn_broadcast_level |-> "50", pn_port_macaddr |-> "06:a0:00:16:a0:5d",
     pn_loopvlans |-> "100-200", pn_port |-> "spine01-to-leaf",
     pn_peer_port |-> "spine02-to-leaf", pn_mode |-> "active-active",
     pn_peer_switch |-> "spine02", pn_failover_action |-> "move"]

\* The arguments required_if asks of command cmd.
Required(fam, cmd) ==
    UNION {r.requirements : r \in {q \in RequiredIf(fam) : q.is = cmd}}

\* The request every variant starts from: credentials, command, and the
\* arguments the command requires.
BaseArgs(fam, cmd) ==
    [k \in DOMAIN ArgumentSpec(fam) |->
        CASE k \in {"pn_cliusername", "pn_clipassword"} \cup Required(fam, cmd) ->
                 Word(SampleText[k])
          [] k = "pn_command" -> Word(cmd)
          [] OTHER -> None]

\* The values a variant may give an argument.
OtherValues(fam, k) ==
    CASE k = "pn_command" -> {}
      [] k \in {"pn_cliusername", "pn_clipassword"} -> {None}
      [] k = "pn_cliswitch" -> {Str(<<>>), Word("local"), Word(SampleText[k])}
      [] k = "pn_quiet" -> {PyBool(FALSE)}
      [] ArgumentSpec(fam)[k].type = "bool" -> {PyBool(TRUE), PyBool(FALSE)}
      [] ArgumentSpec(fam)[k].type = "int" -> {PyInt(0), PyInt(32768)}
      [] OTHER -> {None, Str(<<>>), Word(SampleText[k])}

\* The argument names of a family, in the order of its argument_spec.
ArgNames(fam) ==
    IF fam = "trunk"
    THEN <<"pn_cliusername", "pn_clipassword", "pn_cliswitch", "pn_command", "pn_name",
           "pn_ports", "pn_speed", "pn_egress_rate_limit", "pn_jumbo", "pn_lacp_mode",
           "pn_lacp_priority", "pn_lacp_timeout", "pn_lacp_fallback",
           "pn_lacp_fallback_timeout", "pn_edge_switch", "pn_pause", "pn_description",
           "pn_loopback", "pn_mirror_receive", "pn_unknown_ucast_level",
           "pn_unknown_mcast_level", "pn_broadcast_level", "pn_port_macaddr",
           "pn_loopvlans", "pn_routing", "pn_host", "pn_quiet">>
    ELSE <<"pn_cliusername", "pn_clipassword", "pn_cliswitch", "pn_command", "pn_name",
           "pn_port", "pn_peer_port", "pn_mode", "pn_peer_switch", "pn_failover_action",
           "pn_lacp_mode", "pn_lacp_timeout", "pn_lacp_fallback",
           "pn_lacp_fallback_timeout", "pn_quiet">>

\* The documented request that sets more arguments than MaxSet allows.
Examples(fam) ==
    IF fam = "trunk"
    THEN {}
    ELSE {[BaseArgs(fam, "vlag-create") EXCEPT
              !.pn_peer_switch = Word("spine02"),
              !.pn_mode = Word("active-active")]}

\* The requests a run may start from, before the caller changes arguments.
Requests(fam) == Examples(fam) \cup {BaseArgs(fam, c) : c \in Commands(fam)}

\* What the external tool may write and return: <<stdout, stderr, exit code>>.
ToolResults ==
    {<<<<"ok", LF>>, <<>>, 0>>,
     <<<<"ok">>, <<>>, 1>>,
     <<<<>>, <<"bad port", CR, LF>>, 1>>,
     <<<<>>, <<LF>>, 0>>}

(***************************************************************************)
(* One run of main()                                                       *)
(***************************************************************************)
VARIABLES
    family,      \* which module runs: "trunk" (pn_trunk) or "vlag" (pn_vlag)
    params,      \* the arguments passed; module.params once AnsibleModule returned
    supplied,    \* the positions in ArgNames of the arguments the caller changed
    pc,          \* where main() is, or how it ended
    cli,         \* the command string
    argv,        \* trunkcmd / vlagcmd, the tokens of cli
    started,     \* how many times Popen started the external tool
    exited,      \* how many times communicate() returned
    out,         \* the captured standard output
    err,         \* the captured standard error
    returncode,  \* the exit code of the tool, which main() never reads
    reports      \* the reports handed to exit_json

vars ==
    <<family, params, supplied, pc, cli, argv, started, exited, out, err, returncode, reports>>

Init ==
    /\ family \in Families
    /\ params \in Requests(family)
    /\ supplied = <<>>
    /\ pc = "main"
    /\ cli = <<>>
    /\ argv = <<>>
    /\ started = 0
    /\ exited = 0
    /\ out = <<>>
    /\ err = <<>>
    /\ returncode = 0
    /\ reports = <<>>

\* The caller gives one more argument a value of its own before the module
\* runs: at most MaxSet of them, in the order of ArgNames.
Supply ==
    /\ pc = "main"
    /\ Len(supplied) < MaxSet
    /\ \E i \in 1..Len(ArgNames(family)) :
          /\ i > (IF supplied = <<>> THEN 0 ELSE supplied[Len(supplied)])
          /\ \E v \in OtherValues(family, ArgNames(family)[i]) \ {params[ArgNames(family)[i]]} :
                params' = [params EXCEPT ![ArgNames(family)[i]] = v]
          /\ supplied' = Append(supplied, i)
    /\ UNCHANGED <<family, pc, cli, argv, started, exited, out, err, returncode, reports>>

\* module = AnsibleModule(...): the arguments pass, and the body reads params
ModuleAccepts ==
    /\ pc = "main"
    /\ ArgumentsOk(family, params)
    /\ params' = SetDefaults(ArgumentSpec(family), params)
    /\ pc' = "build"
    /\ UNCHANGED <<family, supplied, cli, argv, started, exited, out, err, returncode, reports>>

\* module = AnsibleModule(...): fail_json ends the run
ModuleRejects ==
    /\ pc = "main"
    /\ ~ArgumentsOk(family, params)
    /\ pc' = "fail_json"
    /\ UNCHANGED <<family, supplied, params, cli, argv, started, exited, out, err, returncode, reports>>

\* pn_trunk: the command string and trunkcmd = shlex.split(cli)
TrunkBuild ==
    /\ pc = "build"
    /\ family = "trunk"
    /\ ~TrunkRaises(params)
    /\ cli' = TrunkCliHead(params) \o TrunkCliTail(params)
    /\ argv' = ShlexSplit(cli')
    /\ pc' = "popen"
    /\ UNCHANGED <<family, supplied, params, started, exited, out, err, returncode, reports>>

\* pn_trunk: the lacp_priority clause raises TypeError, which ends the run
TrunkBuildRaises ==
    /\ pc = "build"
    /\ family = "trunk"
    /\ TrunkRaises(params)
    /\ cli' = TrunkCliHead(params)
    /\ pc' = "TypeError"
    /\ UNCHANGED <<family, supplied, params, argv, started, exited, out, err, returncode, reports>>

\* pn_vlag: the command string and vlagcmd = shlex.split(cli)
VlagBuild ==
    /\ pc = "build"
    /\ family = "vlag"
    /\ cli' = VlagCli(params)
    /\ argv' = ShlexSplit(cli')
    /\ pc' = "popen"
    /\ UNCHANGED <<family, supplied, params, started, exited, out, err, returncode, reports>>

\* subprocess.Popen(...) starts the external tool
Popen ==
    /\ pc = "popen"
    /\ started' = started + 1
    /\ pc' = "communicate"
    /\ UNCHANGED <<family, supplied, params, cli, argv, exited, out, err, returncode, reports>>

\* subprocess.Popen(...) cannot start the tool: OSError ends the run
PopenRaises ==
    /\ pc = "popen"
    /\ pc' = "OSError"
    /\ UNCHANGED <<family, supplied, params, cli, argv, started, exited, out, err, returncode, reports>>

\* out, err = response.communicate(): waits until the tool has exited
Communicate ==
    /\ pc = "communicate"
    /\ \E r \in ToolResults :
          /\ out' = r[1]
          /\ err' = r[2]
          /\ returncode' = r[3]
    /\ exited' = exited + 1
    /\ pc' = "exit_json"
    /\ UNCHANGED <<family, supplied, params, cli, argv, started, reports>>

\* ExitJson that runs the tool once more after a failure report
ExitJsonRetry ==
    /\ pc = "exit_json"
    /\ reports' = Append(reports, IF family = "trunk"
                                  THEN TrunkReport(cli, out, err)
                                  ELSE VlagReport(cli, out, err))
    /\ pc' = IF err /= <<>> /\ started < 2 THEN "popen" ELSE "done"
    /\ UNCHANGED <<family, supplied, params, cli, argv, started, exited, out, err, returncode>>

\* module.exit_json(...) ends the run with the report
ExitJson ==
    /\ pc = "exit_json"
    /\ reports' = Append(reports, IF family = "trunk"
                                  THEN TrunkReport(cli, out, err)
                                  ELSE VlagReport(cli, out, err))
    /\ pc' = "done"
    /\ UNCHANGED <<family, supplied, params, cli, argv, started, exited, out, err, returncode>>

Next ==
    \/ Supply
    \/ ModuleAccepts
    \/ ModuleRejects
    \/ TrunkBuild
    \/ TrunkBuildRaises
    \/ VlagBuild
    \/ Popen
    \/ PopenRaises
    \/ Communicate
    \/ ExitJson

Spec == Init /\ [][Next]_vars

\* exit_json is the statement that follows communicate(): once the tool has
\* exited the report is made.  Nothing makes the tool exit or start.
FairSpec == Spec /\ WF_vars(ExitJson)

(***************************************************************************)
(* Vocabulary of the properties                                            *)
(***************************************************************************)
\* The command string has been built and tokenised.
Rendered == pc \in {"popen", "communicate", "exit_json", "done", "OSError"}

\* Command building has ended, with a command or with an exception.
BuildEnded == Rendered \/ pc = "TypeError"

Command == params.pn_command.v[1]

\* sub occurs in s as a contiguous run of tokens
Contains(s, sub) ==
    \E i \in 0..(Len(s) - Len(sub)) : SubSeq(s, i + 1, i + Len(sub)) = sub

Count(s, tok) == Cardinality({i \in 1..Len(s) : s[i] = tok})

\* s without its trailing line terminators, said without recursion
Trimmed(s) ==
    LET keep == {n \in 0..Len(s) : \A i \in (n + 1)..Len(s) : s[i] \in {CR, LF}}
    IN  SubSeq(s, 1, CHOOSE n \in keep : \A m \in keep : n <= m)

(***************************************************************************)
(* C1: a request that lacks a field mandatory for its operation kind       *)
(* (trunk-create: name and ports; vlag-create: name, port and peer_port;   *)
(* delete and modify: name) is rejected before the external tool is        *)
(* started: in no state of such a run has the subprocess been started.     *)
(***************************************************************************)
Mandatory(cmd) ==
    CASE cmd = "trunk-create" -> {"pn_name", "pn_ports"}
      [] cmd = "vlag-create" -> {"pn_name", "pn_port", "pn_peer_port"}
      [] OTHER -> {"pn_name"}

LacksMandatory == \E k \in Mandatory(Command) : params[k].t = "none"

C1_RejectedBeforeInvocation ==
    LacksMandatory => started = 0 /\ pc \in {"main", "fail_json"}

C1_Witness ==
    /\ pc = "fail_json"
    /\ Command = "vlag-create"
    /\ params.pn_peer_port.t = "none"
    /\ params.pn_name.t = "str"
    /\ started = 0

(***************************************************************************)
(* C2                                                                      *)
(***************************************************************************)
\* C2 as stated: the report is a failure exactly when the captured stderr
\* text is non-empty after trimming its trailing line terminators.
C2_FailureIffTrimmedStderr ==
    pc = "done" => (reports[1].changed = FALSE <=> Trimmed(err) /= <<>>)

\* C2 as amended: the report is a failure (changed=false, stderr = trimmed
\* text, no stdout) exactly when the captured stderr text is non-empty
\* before any trimming, and otherwise a success (changed=true, stdout =
\* trimmed text, no stderr); the exit code plays no part.
C2_FailureIffStderr ==
    pc = "done" =>
        LET r == reports[1]
        IN  IF err /= <<>>
            THEN /\ r.changed = FALSE
                 /\ "stderr" \in DOMAIN r /\ r.stderr = Trimmed(err)
                 /\ "stdout" \notin DOMAIN r
            ELSE /\ r.changed = TRUE
                 /\ "stdout" \in DOMAIN r /\ r.stdout = Trimmed(out)
                 /\ "stderr" \notin DOMAIN r

C2_Witness ==
    /\ pc = "done"
    /\ err = <<LF>>
    /\ returncode = 0
    /\ reports[1].changed = FALSE
    /\ reports[1].stderr = <<>>

(***************************************************************************)
(* C3                                                                      *)
(***************************************************************************)
\* The tri-state boolean arguments of pn_trunk and the token of each.
TriBoolToken ==
    [pn_jumbo |-> "jumbo", pn_edge_switch |-> "edge-switch", pn_pause |-> "pause",
     pn_loopback |-> "loopback", pn_mirror_receive |-> "mirror-receive-only",
     pn_routing |-> "routing", pn_host |-> "host-enable"]

\* Argument k, with token yes when true and token no when false, renders
\* exactly one of them, or neither when it is absent.
TriState(k, yes, no) ==
    /\ Count(argv, yes) = (IF IsTrue(params[k]) THEN 1 ELSE 0)
    /\ Count(argv, no) = (IF IsFalse(params[k]) THEN 1 ELSE 0)

\* C3 as stated: every tri-state boolean field renders its bare token when
\* true, the same token prefixed with "no-" when false, nothing when absent.
C3_NoPrefixForEveryField ==
    Rendered /\ family = "trunk" =>
        \A k \in DOMAIN TriBoolToken : TriState(k, TriBoolToken[k], "no-" \o TriBoolToken[k])

\* C3 as amended: the same for jumbo, edge_switch, pause, loopback,
\* mirror_receive and routing; host renders "host-enable" when true,
\* "host-disable" when false and nothing when absent; pn_vlag declares no
\* tri-state boolean field (its only boolean, quiet, has a default).
C3_TriStateTokens ==
    /\ Rendered /\ family = "trunk" =>
          /\ \A k \in DOMAIN TriBoolToken \ {"pn_host"} :
                TriState(k, TriBoolToken[k], "no-" \o TriBoolToken[k])
          /\ TriState("pn_host", "host-enable", "host-disable")
          /\ Count(argv, "no-host-enable") = 0
    /\ Rendered /\ family = "vlag" =>
          \A k \in DOMAIN params : params[k].t = "bool" => k = "pn_quiet"

C3_Witness ==
    /\ Rendered
    /\ family = "trunk"
    /\ IsFalse(params.pn_host)
    /\ IsTrue(params.pn_jumbo)
    /\ Count(argv, "host-disable") = 1
    /\ Count(argv, "jumbo") = 1

(***************************************************************************)
(* C4: in both families a specified target switch renders the single token *)
(* "switch-local" when its value is "local" and the two tokens "switch     *)
(* <value>" otherwise, and no switch clause is rendered when no switch is  *)
(* specified.                                                              *)
(***************************************************************************)
C4_SwitchClause ==
    Rendered =>
        IF ~Truthy(params.pn_cliswitch)
        THEN Count(argv, "switch") = 0 /\ Count(argv, "switch-local") = 0
        ELSE IF params.pn_cliswitch = Word("local")
             THEN Count(argv, "switch-local") = 1 /\ Count(argv, "switch") = 0
             ELSE /\ Contains(argv, <<"switch">> \o params.pn_cliswitch.v)
                  /\ Count(argv, "switch") = 1
                  /\ Count(argv, "switch-local") = 0

(***************************************************************************)
(* C5                                                                      *)
(***************************************************************************)
\* The documented vlag-create request: name, port, peer_port, peer_switch
\* and mode, and no other object field.
IsVlagExample ==
    /\ family = "vlag"
    /\ Command = "vlag-create"
    /\ params.pn_name = Word("spine-to-leaf")
    /\ params.pn_port = Word("spine01-to-leaf")
    /\ params.pn_peer_port = Word("spine02-to-leaf")
    /\ params.pn_peer_switch = Word("spine02")
    /\ params.pn_mode = Word("active-active")
    /\ \A k \in {"pn_failover_action", "pn_lacp_mode", "pn_lacp_timeout",
                 "pn_lacp_fallback", "pn_lacp_fallback_timeout"} : params[k].t = "none"

\* C5 as stated: the peer-switch token comes before the mode clause.
C5_PeerSwitchBeforeMode ==
    Rendered /\ IsVlagExample =>
        Contains(argv, <<"vlag-create", "name", "spine-to-leaf", "port", "spine01-to-leaf",
                         "peer-port", "spine02-to-leaf", "peer-switchspine02",
                         "mode", "active-active">>)

\* C5 as amended: the rendered command contains, contiguously and in this
\* order, "vlag-create name spine-to-leaf port spine01-to-leaf peer-port
\* spine02-to-leaf mode active-active peer-switchspine02": the mode clause
\* comes before the peer-switch token, which has no separating space.
C5_ModeBeforePeerSwitch ==
    Rendered /\ IsVlagExample =>
        Contains(argv, <<"vlag-create", "name", "spine-to-leaf", "port", "spine01-to-leaf",
                         "peer-port", "spine02-to-leaf", "mode", "active-active",
                         "peer-switchspine02">>)

C5_Witness ==
    /\ Rendered
    /\ IsVlagExample
    /\ argv[Len(argv)] = "peer-switchspine02"

(***************************************************************************)
(* C6: for every trunk request in which lacp_priority is present, command  *)
(* building completes and the rendered command contains the token pair     *)
(* "lacp-priority <value>", the value as decimal text.                     *)
(***************************************************************************)
C6_LacpPriorityRendered ==
    BuildEnded /\ family = "trunk" /\ params.pn_lacp_priority.t = "int" =>
        /\ Rendered
        /\ Contains(argv, <<"lacp-priority", ToString(params.pn_lacp_priority.v)>>)

(***************************************************************************)
(* C7: for every well-formed trunk-create request in which only name and   *)
(* ports are set among the object fields, the tokens after the executable  *)
(* path, quiet flag, credential and optional switch clause are exactly     *)
(* "trunk-create name <name> ports <ports>".                               *)
(***************************************************************************)
\* The object fields of pn_trunk other than name and ports.
TrunkOtherFields ==
    DOMAIN TrunkArgumentSpec \ {"pn_cliusername", "pn_clipassword", "pn_cliswitch",
                                "pn_command", "pn_name", "pn_ports", "pn_quiet"}

OnlyNameAndPorts ==
    /\ family = "trunk"
    /\ Command = "trunk-create"
    /\ Truthy(params.pn_name)
    /\ Truthy(params.pn_ports)
    /\ \A k \in TrunkOtherFields : params[k].t = "none"

\* The tokens that may come before the operation token.
LeadingTokens ==
    {"/usr/bin/cli", "--quiet", "--user", "switch", "switch-local",
     params.pn_cliusername.v[1] \o ":" \o params.pn_clipassword.v[1]}
        \cup {params.pn_cliswitch.v[i] : i \in 1..(IF params.pn_cliswitch.t = "str"
                                                   THEN Len(params.pn_cliswitch.v) ELSE 0)}

C7_OnlyNameAndPorts ==
    Rendered /\ OnlyNameAndPorts =>
        /\ Len(argv) >= 5
        /\ SubSeq(argv, Len(argv) - 4, Len(argv)) =
               <<"trunk-create", "name">> \o params.pn_name.v \o <<"ports">> \o params.pn_ports.v
        /\ \A i \in 1..(Len(argv) - 5) : argv[i] \in LeadingTokens
        /\ argv[1] = "/usr/bin/cli"

C7_Witness ==
    /\ Rendered
    /\ OnlyNameAndPorts
    /\ params.pn_cliswitch = Word("leaf01")
    /\ argv = <<"/usr/bin/cli", "--quiet", "--user", "admin:admin", "switch", "leaf01",
                "trunk-create", "name", "spine-to-leaf", "ports", "11,12,13,14">>

(***************************************************************************)
(* C8: the rendered tokens are the executable path, the quiet flag if      *)
(* requested, the credential, the optional switch clause, the operation    *)
(* token and "name <object-name>", followed by the token groups of exactly *)
(* the present optional fields, each once, in the declaration order of the *)
(* family's field table.  A str field counts as present when it is a       *)
(* non-empty text, a boolean or integer field when it has a value.         *)
(***************************************************************************)
StrGroup(tok, x) == IF Truthy(x) THEN <<tok>> \o x.v ELSE <<>>

BoolGroup(yes, no, x) ==
    IF IsTrue(x) THEN <<yes>> ELSE IF IsFalse(x) THEN <<no>> ELSE <<>>

IntGroup(tok, x) == IF x.t = "int" THEN <<tok, ToString(x.v)>> ELSE <<>>

SwitchGroup(x) ==
    IF ~Truthy(x) THEN <<>>
    ELSE IF x = Word("local") THEN <<"switch-local">> ELSE <<"switch">> \o x.v

LeadingGroups(p) ==
    <<"/usr/bin/cli">>
        \o (IF IsTrue(p.pn_quiet) THEN <<"--quiet">> ELSE <<>>)
        \o <<"--user", p.pn_cliusername.v[1] \o ":" \o p.pn_clipassword.v[1]>>
        \o SwitchGroup(p.pn_cliswitch)
        \o p.pn_command.v \o <<"name">> \o p.pn_name.v

TrunkGroups(p) ==
    StrGroup("ports", p.pn_ports)
        \o StrGroup("speed", p.pn_speed)
        \o StrGroup("egress-rate-limit", p.pn_egress_rate_limit)
        \o BoolGroup("jumbo", "no-jumbo", p.pn_jumbo)
        \o StrGroup("lacp-mode", p.pn_lacp_mode)
        \o IntGroup("lacp-priority", p.pn_lacp_priority)
        \o StrGroup("lacp-timeout", p.pn_lacp_timeout)
        \o StrGroup("lacp-fallback", p.pn_lacp_fallback)
        \o StrGroup("lacp-fallback-timeout", p.pn_lacp_fallback_timeout)
        \o BoolGroup("edge-switch", "no-edge-switch", p.pn_edge_switch)
        \o BoolGroup("pause", "no-pause", p.pn_pause)
        \o StrGroup("description", p.pn_description)
        \o BoolGroup("loopback", "no-loopback", p.pn_loopback)
        \o BoolGroup("mirror-receive-only", "no-mirror-receive-only", p.pn_mirror_receive)
        \o StrGroup("unknown-ucast-level", p.pn_unknown_ucast_level)
        \o StrGroup("unknown-mcast-level", p.pn_unknown_mcast_level)
        \o StrGroup("broadcast-level", p.pn_broadcast_level)
        \o StrGroup("port-mac-address", p.pn_port_macaddr)
        \o StrGroup("loopvlans", p.pn_loopvlans)
        \o BoolGroup("routing", "no-routing", p.pn_routing)
        \o BoolGroup("host-enable", "host-disable", p.pn_host)

VlagGroups(p) ==
    StrGroup("port", p.pn_port)
        \o StrGroup("peer-port", p.pn_peer_port)
        \o StrGroup("mode", p.pn_mode)
        \o (IF Truthy(p.pn_peer_switch)
            THEN <<"peer-switch" \o p.pn_peer_switch.v[1]>> ELSE <<>>)
        \o (IF Truthy(p.pn_failover_action)
            THEN <<"failover-" \o p.pn_failover_action.v[1] \o "-L2">> ELSE <<>>)
        \o StrGroup("lacp-mode", p.pn_lacp_mode)
        \o StrGroup("lacp-timeout", p.pn_lacp_timeout)
        \o StrGroup("lacp-fallback", p.pn_lacp_fallback)
        \o StrGroup("lacp-fallback-timeout", p.pn_lacp_fallback_timeout)

C8_GroupsInDeclarationOrder ==
    BuildEnded =>
        /\ Rendered
        /\ argv = LeadingGroups(params)
                      \o (IF family = "trunk" THEN TrunkGroups(params) ELSE VlagGroups(params))

\* What is left of C8 where the lacp_priority clause of pn_trunk and the
\* switch clause of pn_vlag play no part.
GroupsInOrderElsewhere ==
    /\ Rendered
    /\ family = "trunk" => params.pn_lacp_priority.t = "none"
    /\ family = "vlag" => params.pn_cliswitch /= Word("local")
    => argv = LeadingGroups(params)
                  \o (IF family = "trunk" THEN TrunkGroups(params) ELSE VlagGroups(params))

(***************************************************************************)
(* C9: every VLAG report carries a status code rc, 1 exactly when the      *)
(* report is a failure (changed=false, stderr present) and 0 exactly when  *)
(* it is a success (changed=true, stdout present); no report carries both  *)
(* stdout and stderr; trunk reports carry no status code.                  *)
(***************************************************************************)
IsFailure(r) == r.changed = FALSE /\ "stderr" \in DOMAIN r

IsSuccess(r) == r.changed = TRUE /\ "stdout" \in DOMAIN r

PhaseOrder ==
    {<<"main", "build">>, <<"main", "fail_json">>, <<"build", "popen">>,
     <<"build", "TypeError">>, <<"popen", "communicate">>, <<"popen", "OSError">>,
     <<"communicate", "exit_json">>, <<"exit_json", "done">>}

PhaseStep ==
    /\ pc' /= pc => <<pc, pc'>> \in PhaseOrder
    /\ started' /= started => pc = "popen" /\ started = 0 /\ started' = 1 /\ reports = <<>>
    /\ exited' /= exited => pc = "communicate" /\ started = 1 /\ exited' = 1
    /\ reports' /= reports => /\ pc = "exit_json" /\ pc' = "done"
                              /\ exited = 1
                              /\ reports = <<>> /\ Len(reports') = 1

PhaseInvariant ==
    /\ started <= 1
    /\ exited <= started
    /\ Len(reports) <= exited
    /\ pc = "done" => Len(reports) = 1 /\ exited = 1 /\ started = 1
    /\ pc \in {"main", "fail_json", "build", "TypeError", "popen", "OSError"} => exited = 0
    /\ pc \in {"main", "fail_json", "build", "TypeError"} => started = 0 /\ argv = <<>>

C10_PhasesInOrder ==
    /\ [][PhaseStep]_vars
    /\ []PhaseInvariant
    /\ (exited = 1 ~> Len(reports) = 1)

C10_Witness ==
    /\ pc = "done"
    /\ started = 1
    /\ exited = 1
    /\ Len(reports) = 1
    /\ reports[1].changed = FALSE
    /\ returncode = 1

(***************************************************************************)
(* C11: in a rendered command the token group of a string-valued optional  *)
(* field is emitted if and only if the supplied value is a non-empty       *)
(* string; a field supplied as the empty string contributes no tokens, and *)
(* the command is the one rendered with that field absent.  So a           *)
(* trunk-create whose ports value is the empty string renders a command    *)
(* with no "ports" clause.                                                 *)
(***************************************************************************)
\* The string-valued optional fields and the label of each.
TrunkStrLabel ==
    [pn_ports |-> "ports", pn_speed |-> "speed",
     pn_egress_rate_limit |-> "egress-rate-limit", pn_lacp_mode |-> "lacp-mode",
     pn_lacp_timeout |-> "lacp-timeout", pn_lacp_fallback |-> "lacp-fallback",
     pn_lacp_fallback_timeout |-> "lacp-fallback-timeout",
     pn_description |-> "description",
     pn_unknown_ucast_level |-> "unknown-ucast-level",
     pn_unknown_mcast_level |-> "unknown-mcast-level",
     pn_broadcast_level |-> "broadcast-level", pn_port_macaddr |-> "port-mac-address",
     pn_loopvlans |-> "loopvlans"]

VlagStrLabel ==
    [pn_port |-> "port", pn_peer_port |-> "peer-port", pn_mode |-> "mode",
     pn_lacp_mode |-> "lacp-mode", pn_lacp_timeout |-> "lacp-timeout",
     pn_lacp_fallback |-> "lacp-fallback",
     pn_lacp_fallback_timeout |-> "lacp-fallback-timeout"]

StrLabel == IF family = "trunk" THEN TrunkStrLabel ELSE VlagStrLabel

\* The label followed by the value is in the command, once.
GroupEmitted(label, x) == Count(argv, label) = 1 /\ Contains(argv, <<label>> \o x.v)

\* The token that starts with `prefix` and the token that is `prefix` alone.
GluedEmitted(prefix, suffix, x) ==
    IF Truthy(x)
    THEN Count(argv, prefix \o x.v[1] \o suffix) = 1
    ELSE \A i \in 1..Len(argv) :
            argv[i] \notin {prefix \o suffix, prefix \o SampleText.pn_peer_switch \o suffix,
                            prefix \o SampleText.pn_failover_action \o suffix}

\* params with every optional str argument that is "" made absent
EmptyAsAbsent(p) ==
    [k \in DOMAIN p |->
        IF k \in DOMAIN StrLabel \cup {"pn_cliswitch", "pn_peer_switch", "pn_failover_action"}
           /\ p[k] = Str(<<>>)
        THEN None ELSE p[k]]

C11_EmptyStringIsAbsent ==
    Rendered =>
        /\ \A k \in DOMAIN StrLabel :
              IF params[k].t = "str" /\ params[k].v /= <<>>
              THEN GroupEmitted(StrLabel[k], params[k])
              ELSE Count(argv, StrLabel[k]) = 0
        /\ family = "vlag" =>
              /\ GluedEmitted("peer-switch", "", params.pn_peer_switch)
              /\ GluedEmitted("failover-", "-L2", params.pn_failover_action)
        /\ argv = ShlexSplit(IF family = "trunk"
                             THEN TrunkCliHead(EmptyAsAbsent(params))
                                      \o TrunkCliTail(EmptyAsAbsent(params))
                             ELSE VlagCli(EmptyAsAbsent(params)))

C11_Witness ==
    /\ Rendered
    /\ family = "trunk"
    /\ Command = "trunk-create"
    /\ params.pn_ports = Str(<<>>)
    /\ params.pn_description = Str(<<>>)
    /\ Count(argv, "ports") = 0
    /\ argv[Len(argv)] = "spine-to-leaf"
====
